---- MODULE Spec2Model ----
(***************************************************************************)
(* Marketing compliance review tool (src/marketing-compliance-app.py).     *)
(*                                                                         *)
(* The program is a Streamlit script: every user interaction re-runs the   *)
(* script against the session state (data, requirements, current_id).      *)
(* One run of the script on one page is one action of this model.          *)
(*                                                                         *)
(* Encodings                                                               *)
(*   Optional values   None is <<>>, a present value v is <<v>>.           *)
(*   Instants          an integer count of half days since 2024-01-01      *)
(*                     00:00: 2*d is midnight of day d, 2*d+1 is any later *)
(*                     time of day d.  A timedelta of k days is 2*k.       *)
(*   submission_date   [repr, val]: repr "str" with val the day number     *)
(*                     (the text "%Y-%m-%d"), or repr "datetime" with val  *)
(*                     the instant (a pandas Timestamp at midnight).       *)
(*   submission_id     <<"SUB", "2024", digits>>, the three parts that     *)
(*                     split('-') yields; digits is the decimal text.      *)
(*   review_time_hours tenths of an hour (values have one decimal).        *)
(*   Metric values     [kind, num, den]: kind "num" is the exact fraction  *)
(*                     num/den, "nan" is NaN, "ZeroDivisionError" is the   *)
(*                     exception of a Python division by zero.             *)
(***************************************************************************)
EXTENDS Integers, Sequences, FiniteSets, TLC

VARIABLES
    data,        \* st.session_state.data: the sequence of submission rows
    current_id,  \* st.session_state.current_id: the next sequence number
    now,         \* the wall clock, read by datetime.now()
    screen,      \* what the last run of the script rendered
    issued       \* history: the ids returned by the successful submits, in order

vars == <<data, current_id, now, screen, issued>>

-----------------------------------------------------------------------------
(* Bounds of the model *)

\* Rows produced by generate_sample_data (300 in the program).
NumGenerated == 2
\* Successful submits in one session.
MaxSubmits == 2
\* Rows of an arbitrary table handed to the dashboard computation.
MaxRows == 2

-----------------------------------------------------------------------------
(* Program constants *)

Days3Q == 90
Days4Q == 120
JanDays == 31
FebEndDays == 59
ComplianceThreshold == 80
MultiRoundFlags == 2
IdWidth == 4
MonthsPerQuarter == 3

None == <<>>
Some(v) == <<v>>
IsNone(o) == o = <<>>
Val(o) == o[1]

MaterialTypes ==
    {"Whitepaper", "Blog Post", "Email", "Social Post", "Webpage",
     "Video", "Podcast", "Presentation", "PR Article"}
Sources == {"Corporate Marketing", "Third Party", "RFP/RFI Response"}
Statuses == {"Pending", "In Review", "Approved", "Rejected", "Needs Revision"}
Reviewers == {"Amanda H.", "Michael T."}

-----------------------------------------------------------------------------
(* Calendar and clock *)

IsLeap(y) == (y % 4 = 0 /\ y % 100 # 0) \/ y % 400 = 0
DaysInYear(y) == IF IsLeap(y) THEN 366 ELSE 365

RECURSIVE JanFirst(_)
\* Day number of 1 January of year y (day 0 is 2024-01-01).
JanFirst(y) ==
    IF y = 2024 THEN 0
    ELSE IF y > 2024 THEN JanFirst(y - 1) + DaysInYear(y - 1)
    ELSE JanFirst(y + 1) - DaysInYear(y)

YearOf(d) == CHOOSE y \in 2022..2027 : JanFirst(y) <= d /\ d < JanFirst(y + 1)

\* datetime(...).strftime("%Y-%m-%d"): the calendar day, the time of day dropped.
StrfDate(t) == [repr |-> "str", val |-> t \div 2]
\* timedelta(days=k)
timedelta(k) == 2 * k
\* datetime(today.year, 1, 1)
YearStart(t) == 2 * JanFirst(YearOf(t \div 2))

\* pd.to_datetime on one cell: text becomes midnight of that day, a Timestamp
\* is kept.
ToDatetimeCell(c) ==
    IF c.repr = "str" THEN [repr |-> "datetime", val |-> 2 * c.val] ELSE c

\* pd.to_datetime(df['submission_date']) assigned back to the column.
ToDatetimeColumn(df) ==
    [i \in 1..Len(df) |->
        [df[i] EXCEPT !.submission_date = ToDatetimeCell(df[i].submission_date)]]

-----------------------------------------------------------------------------
(* Submission ids *)

RECURSIVE Digits(_)
\* The decimal digits of n >= 0, most significant first.
Digits(n) == IF n < 10 THEN <<n>> ELSE Append(Digits(n \div 10), n % 10)

RECURSIVE ZeroPad(_, _)
ZeroPad(ds, w) == IF Len(ds) >= w THEN ds ELSE ZeroPad(<<0>> \o ds, w)

\* f"SUB-{2024}-{n:04d}"
FormatId(n) == <<"SUB", "2024", ZeroPad(Digits(n), IdWidth)>>

RECURSIVE ParseInt(_)
\* int(text) of a string of decimal digits.
ParseInt(ds) ==
    IF Len(ds) = 0 THEN 0
    ELSE 10 * ParseInt(SubSeq(ds, 1, Len(ds) - 1)) + ds[Len(ds)]

RECURSIVE StrLess(_, _)
\* Python's order on strings of digits: lexicographic, a proper prefix first.
StrLess(a, b) ==
    IF Len(b) = 0 THEN FALSE
    ELSE IF Len(a) = 0 THEN TRUE
    ELSE IF a[1] # b[1] THEN a[1] < b[1]
    ELSE StrLess(Tail(a), Tail(b))

\* df['submission_id'].str.split('-').str[2].max(): the greatest sequence
\* text, compared as text.
StrMaxSeq(df) ==
    LET parts == {df[i].submission_id[3] : i \in 1..Len(df)}
    IN  CHOOSE m \in parts : \A p \in parts : ~StrLess(m, p)

\* The sequence number an id carries.
SeqOf(id) == ParseInt(id[3])

-----------------------------------------------------------------------------
(* Sample data: generate_sample_data *)

\* Row i of the generated table, from its random draws c, generated at instant
\* t.  c.s2 is the status drawn a second time, in the comprehension that fills
\* assigned_to; c.review_delta is None or the 1..7 days added to the submission
\* date.
GenRow(i, t, c) ==
    [submission_id     |-> FormatId(i),
     title             |-> "Marketing Material " \o ToString(i),
     submission_date   |-> StrfDate(t - timedelta(c.offset)),
     material_type     |-> c.material_type,
     source            |-> c.source,
     status            |-> c.status,
     page_count        |-> c.page_count,
     assigned_to       |-> IF c.s2 # "Pending" THEN Some(c.reviewer) ELSE None,
     review_date       |-> IF IsNone(c.review_delta) THEN None
                           ELSE Some(StrfDate(2 * StrfDate(t - timedelta(c.offset)).val
                                              + timedelta(Val(c.review_delta)))),
     compliance_score  |-> Some(c.compliance_score),
     flags             |-> Some(c.flags),
     review_time_hours |-> c.review_time_hours]

\* The DataFrame of n rows built from the draws d[1..n].
generate_sample_data(n, t, d) == [i \in 1..n |-> GenRow(i, t, d[i])]

\* Draws of the store life cycle: status and assignment vary, the rest is one
\* value of the generator's range.
LifecycleDraws ==
    [offset: {30}, material_type: {"Blog Post"}, source: {"Corporate Marketing"},
     status: {"Pending", "Approved"}, page_count: {10},
     s2: {"Pending", "Approved"}, reviewer: {"Amanda H."},
     review_delta: {Some(3)}, compliance_score: {85}, flags: {1},
     review_time_hours: {Some(20)}]

\* Variant: the counter starts at the greatest sequence number itself.
InitialCurrentIdNoIncrement(df) == ParseInt(StrMaxSeq(df))

\* if 'current_id' not in st.session_state: max_id + 1
InitialCurrentId(df) == ParseInt(StrMaxSeq(df)) + 1

\* The instants at which a session runs: 2025-02-14 at midnight and later that
\* day, and the next midnight.
SessionClock == {2 * (JanFirst(2025) + 44) + h : h \in 0..2}

NoScreen == [page |-> "none"]

Init ==
    /\ now \in SessionClock
    /\ \E d \in [1..NumGenerated -> LifecycleDraws] :
          data = generate_sample_data(NumGenerated, now, d)
    /\ current_id = InitialCurrentId(data)
    /\ screen = NoScreen
    /\ issued = <<>>

-----------------------------------------------------------------------------
(* Submit Request page *)

TitleError == "Please provide a title for your submission."
FileError == "Please upload a file for review."

\* What the user may have entered when pressing "Submit for Review".
SubmitForms ==
    {[title |-> "", material_type |-> "Video", source |-> "Third Party",
      page_count |-> 1, uploaded_file |-> Some("brochure.pdf")],
     [title |-> "Q1 Brochure", material_type |-> "Video", source |-> "Third Party",
      page_count |-> 1, uploaded_file |-> None],
     [title |-> "", material_type |-> "Email", source |-> "RFP/RFI Response",
      page_count |-> 5, uploaded_file |-> None],
     [title |-> "Q1 Brochure", material_type |-> "Video", source |-> "Third Party",
      page_count |-> 1, uploaded_file |-> Some("brochure.pdf")],
     [title |-> "Fund Update", material_type |-> "PR Article",
      source |-> "Corporate Marketing",
      page_count |-> 100, uploaded_file |-> Some("update.docx")]}

\* Variant: only the title is validated.
ValidationErrorsTitleOnly(f) == IF f.title = "" THEN <<TitleError>> ELSE <<>>

\* The validation chain of the submit button: the messages st.error shows.
ValidationErrors(f) ==
    IF f.title = "" THEN <<TitleError>>
    ELSE IF IsNone(f.uploaded_file) THEN <<FileError>>
    ELSE <<>>

\* new_id = f"SUB-{2024}-{st.session_state.current_id:04d}"
NewId(cid) == FormatId(cid)

\* len(flags) if 'flags' in locals() else 0.  The pre-check button and the
\* submit button are never both pressed in one run of the script, so flags is
\* not bound when the submit branch runs.
NewFlags == Some(0)

\* Variant: the page count is left at the widget's default value.
new_submission_default_pages(new_id, f, t) ==
    [submission_id     |-> new_id,
     title             |-> f.title,
     submission_date   |-> StrfDate(t),
     material_type     |-> f.material_type,
     source            |-> f.source,
     status            |-> "Pending",
     page_count        |-> 1,
     assigned_to       |-> None,
     review_date       |-> None,
     compliance_score  |-> None,
     flags             |-> NewFlags,
     review_time_hours |-> None]

\* The new_submission dict.
new_submission(new_id, f, t) ==
    [submission_id     |-> new_id,
     title             |-> f.title,
     submission_date   |-> StrfDate(t),
     material_type     |-> f.material_type,
     source            |-> f.source,
     status            |-> "Pending",
     page_count        |-> f.page_count,
     assigned_to       |-> None,
     review_date       |-> None,
     compliance_score  |-> None,
     flags             |-> NewFlags,
     review_time_hours |-> None]

\* Variant: the new row is put first.
ConcatFirst(df, row) == <<row>> \o df

\* pd.concat([data, pd.DataFrame([row])], ignore_index=True)
Concat(df, row) == Append(df, row)

\* Variant: the counter is not advanced.
NextCurrentIdStuck(cid) == cid

\* st.session_state.current_id += 1
NextCurrentId(cid) == cid + 1

\* generate_requirements(): the catalog, read-only once the session holds it.
generate_requirements ==
    [c \in {"General", "Third Party", "Corporate Marketing", "RFP/RFI Response"} |->
        CASE c = "General" ->
               <<"No misleading statements about product performance",
                 "Clear disclosure of fees and expenses",
                 "No promises of specific returns",
                 "Balanced presentation of risks and benefits",
                 "No guarantees of future performance",
                 "Appropriate disclaimers included",
                 "Compliant with regulatory guidelines">>
          [] c = "Third Party" ->
               <<"Clear attribution of source",
                 "Written permission obtained",
                 "No alteration of original content meaning",
                 "Compliant with GGTC co-branding guidelines",
                 "Dated within last 12 months">>
          [] c = "Corporate Marketing" ->
               <<"Approved by department head",
                 "Compliant with brand guidelines",
                 "Contains required legal disclaimers",
                 "Referenced data is current and accurate",
                 "Appropriate for target audience">>
          [] c = "RFP/RFI Response" ->
               <<"All statements factually accurate",
                 "Product capabilities accurately represented",
                 "No forward-looking statements without disclaimers",
                 "Claims supported by documentation",
                 "All metrics and statistics verified">>]

\* source.split(" "): the words of a source name.
SplitOnSpace(source) ==
    CASE source = "Corporate Marketing" -> <<"Corporate", "Marketing">>
      [] source = "Third Party"         -> <<"Third", "Party">>
      [] source = "RFP/RFI Response"    -> <<"RFP/RFI", "Response">>

\* d.get(k, [])
GetOrEmpty(d, k) == IF k \in DOMAIN d THEN d[k] ELSE <<>>

\* all_requirements = general_requirements + requirements, where
\* requirements = st.session_state.requirements.get(source.split(" ")[0], [])
all_requirements(source) ==
    GetOrEmpty(generate_requirements, "General")
    \o GetOrEmpty(generate_requirements, SplitOnSpace(source)[1])

\* One run of the script with the submit button pressed on form f.
SubmitWith(f) ==
    LET errs == ValidationErrors(f) IN
    IF Len(errs) > 0
    THEN /\ screen' = [page |-> "Submit Request", form |-> f,
                       requirements |-> all_requirements(f.source),
                       errors |-> errs, success |-> None]
         /\ UNCHANGED <<data, current_id, now, issued>>
    ELSE /\ Len(data) < NumGenerated + MaxSubmits
         /\ data' = Concat(data, new_submission(NewId(current_id), f, now))
         /\ current_id' = NextCurrentId(current_id)
         /\ screen' = [page |-> "Submit Request", form |-> f,
                       requirements |-> all_requirements(f.source),
                       errors |-> <<>>, success |-> Some(NewId(current_id))]
         /\ issued' = Append(issued, NewId(current_id))
         /\ UNCHANGED now

Submit == \E f \in SubmitForms : SubmitWith(f)

\* Time passes between two runs of the script.
Tick == \E t \in SessionClock : t > now /\ now' = t /\ UNCHANGED <<data, current_id, screen, issued>>

-----------------------------------------------------------------------------
(* Dashboard page *)

Num(a, b) == [kind |-> "num", num |-> a, den |-> b]
Zero == Num(0, 1)
NaN == [kind |-> "nan", num |-> 0, den |-> 0]
Inf == [kind |-> "inf", num |-> 0, den |-> 0]
ZeroDivisionError == [kind |-> "ZeroDivisionError", num |-> 0, den |-> 0]

\* a / b * 100 on Python ints: a division by zero raises.
PyPercent(a, b) == IF b = 0 THEN ZeroDivisionError ELSE Num(100 * a, b)

\* a / b on numpy scalars: a division by zero yields nan or inf.
NpDiv(a, b) == IF b = 0 THEN (IF a = 0 THEN NaN ELSE Inf) ELSE Num(a, b)

\* x - y on floats.
Minus(x, y) ==
    IF x.kind = "ZeroDivisionError" \/ y.kind = "ZeroDivisionError"
    THEN ZeroDivisionError
    ELSE IF x.kind # "num" \/ y.kind # "num" THEN NaN
    ELSE Num(x.num * y.den - y.num * x.den, x.den * y.den)

\* x > 0 on a float: False for NaN.
Positive(x) == x.kind = "inf" \/ (x.kind = "num" /\ x.num * x.den > 0)

RECURSIVE SumOf(_, _)
\* The sum of field f over the rows of df (the field is present in each).
SumOf(df, f) ==
    IF Len(df) = 0 THEN 0 ELSE df[1][f] + SumOf(Tail(df), f)

RECURSIVE SumOpt(_, _)
\* The sum of optional field f over the rows of df that have it.
SumOpt(df, f) ==
    IF Len(df) = 0 THEN 0
    ELSE (IF IsNone(df[1][f]) THEN 0 ELSE Val(df[1][f])) + SumOpt(Tail(df), f)

\* df[df['review_time_hours'].notna()]
Reviewed(df) == SelectSeq(df, LAMBDA r : ~IsNone(r.review_time_hours))

\* series.mean(): NaN over no values; hours from tenths.
MeanReviewTime(df) ==
    IF Len(Reviewed(df)) = 0 THEN NaN
    ELSE Num(SumOpt(Reviewed(df), "review_time_hours"), 10 * Len(Reviewed(df)))

\* Variant: a row with no score counts as compliant.
CompliantOrMissing(df) ==
    SelectSeq(df, LAMBDA r : IsNone(r.compliance_score)
                             \/ Val(r.compliance_score) >= ComplianceThreshold)

\* df[df['compliance_score'] >= 80]: a missing score compares False.
Compliant(df) ==
    SelectSeq(df, LAMBDA r : ~IsNone(r.compliance_score)
                             /\ Val(r.compliance_score) >= ComplianceThreshold)

\* df[df['status'] == 'Approved']
Approved(df) == SelectSeq(df, LAMBDA r : r.status = "Approved")

\* df[df['flags'] > 2]
MultiRound(df) ==
    SelectSeq(df, LAMBDA r : ~IsNone(r.flags) /\ Val(r.flags) > MultiRoundFlags)

Periods == {"3Q", "4Q", "JAN", "FEB"}

\* df_3q, df_4q, df_jan, df_feb: the rows of df (dates converted) in period p,
\* with today = datetime.now().
PeriodRows(df, today, p) ==
    LET last_3q == today - timedelta(Days3Q)
        last_4q == today - timedelta(Days4Q)
        year_start == YearStart(today)
        d(r) == r.submission_date.val
    IN  CASE p = "3Q"  -> SelectSeq(df, LAMBDA r : d(r) >= last_3q)
          [] p = "4Q"  -> SelectSeq(df, LAMBDA r : d(r) >= last_4q /\ d(r) < last_3q)
          [] p = "JAN" -> SelectSeq(df, LAMBDA r :
                              /\ d(r) >= year_start
                              /\ d(r) < year_start + timedelta(JanDays))
          [] p = "FEB" -> SelectSeq(df, LAMBDA r :
                              /\ d(r) >= year_start + timedelta(JanDays)
                              /\ d(r) < year_start + timedelta(FebEndDays))

\* compliance = len(df[score >= 80]) / len(df) * 100 if len(df) > 0 else 0
ComplianceRate(df) ==
    IF Len(df) > 0 THEN PyPercent(Len(Compliant(df)), Len(df)) ELSE Zero

\* The delta shown under the compliance rate: the whole difference is guarded
\* by len(df_4q) > 0.
ComplianceDelta(df, df_4q) ==
    IF Len(df_4q) > 0
    THEN Minus(ComplianceRate(df), PyPercent(Len(Compliant(df_4q)), Len(df_4q)))
    ELSE Zero

\* Variant: the pages of every row of the period are counted.
PagesPerHourAllPages(period_df) ==
    IF Positive(MeanReviewTime(period_df))
    THEN NpDiv(10 * SumOf(period_df, "page_count"),
               SumOpt(Reviewed(period_df), "review_time_hours"))
    ELSE Zero

\* Average pages per hour of one period.
PagesPerHour(period_df) ==
    IF Positive(MeanReviewTime(period_df))
    THEN NpDiv(10 * SumOf(Reviewed(period_df), "page_count"),
               SumOpt(Reviewed(period_df), "review_time_hours"))
    ELSE Zero

\* Variant: the rate is computed without the guard on the period's length.
FirstPassUnguarded(period_df) ==
    PyPercent(Len(Approved(period_df)), Len(period_df))

\* First-pass approval rate of one period.
FirstPass(period_df) ==
    IF Len(period_df) > 0
    THEN PyPercent(Len(Approved(period_df)), Len(period_df)) ELSE Zero

\* Reviews requiring multiple rounds, of one period.
MultiRoundRate(period_df) ==
    IF Len(period_df) > 0
    THEN PyPercent(Len(MultiRound(period_df)), Len(period_df)) ELSE Zero

\* The review efficiency table: one column per period.
ReviewMetrics(df, today) ==
    [p \in Periods |->
        LET period_df == PeriodRows(df, today, p) IN
        [avg_time       |-> MeanReviewTime(period_df),
         pages_per_hour |-> PagesPerHour(period_df),
         first_pass     |-> FirstPass(period_df),
         multi_round    |-> MultiRoundRate(period_df)]]

\* df[df['material_type'] == 'Video']
Videos(df) == SelectSeq(df, LAMBDA r : r.material_type = "Video")

\* df[df['source'] == src]
FromSource(df, src) == SelectSeq(df, LAMBDA r : r.source = src)

\* Variant: every period's figure is divided by 3.
PeriodFigureAllDivided(x, p) == x \div MonthsPerQuarter

\* The figure shown for period p from the window's count or sum x: "// 3"
\* for the two trailing windows, x itself for the two months.
PeriodFigure(x, p) ==
    IF p \in {"3Q", "4Q"} THEN x \div MonthsPerQuarter ELSE x

\* pieces_data (and tp_*_pieces on the third-party rows)
pieces_data(df, today) ==
    [p \in Periods |-> PeriodFigure(Len(PeriodRows(df, today, p)), p)]

\* pages_data (and tp_*_pages)
pages_data(df, today) ==
    [p \in Periods |->
        PeriodFigure(SumOf(PeriodRows(df, today, p), "page_count"), p)]

\* videos_data (and tp_*_videos)
videos_data(df, today) ==
    [p \in Periods |-> PeriodFigure(Len(Videos(PeriodRows(df, today, p))), p)]

\* The three volume series of table df.
Volume(df, today) ==
    [pieces |-> pieces_data(df, today),
     pages  |-> pages_data(df, today),
     videos |-> videos_data(df, today)]

\* Rows of df of material type m.
OfMaterial(df, m) == SelectSeq(df, LAMBDA r : r.material_type = m)

\* Variant: the map built from the material_types list of the same block,
\* which has no 'PR Article'.
material_map_listed ==
    [m \in {"Whitepaper", "Blog Post", "Email", "Social Post", "Webpage",
            "Video", "Podcast", "Presentation"} |->
        CASE m = "Whitepaper"   -> "WHITEPAPERS/E-BOOKS"
          [] m = "Blog Post"    -> "BLOGS & PR ARTICLES"
          [] m = "Email"        -> "EMAILS"
          [] m = "Social Post"  -> "SOCIAL POSTS"
          [] m = "Webpage"      -> "WEBPAGES"
          [] m = "Video"        -> "VIDEOS"
          [] m = "Podcast"      -> "PODCASTS/MEDIA"
          [] m = "Presentation" -> "PRESENTATIONS"]

\* material_map: material type to the display name of its column.
material_map ==
    [m \in {"Whitepaper", "Blog Post", "PR Article", "Email", "Social Post",
            "Webpage", "Video", "Podcast", "Presentation"} |->
        CASE m = "Whitepaper"   -> "WHITEPAPERS/E-BOOKS"
          [] m = "Blog Post"    -> "BLOGS & PR ARTICLES"
          [] m = "PR Article"   -> "BLOGS & PR ARTICLES"
          [] m = "Email"        -> "EMAILS"
          [] m = "Social Post"  -> "SOCIAL POSTS"
          [] m = "Webpage"      -> "WEBPAGES"
          [] m = "Video"        -> "VIDEOS"
          [] m = "Podcast"      -> "PODCASTS/MEDIA"
          [] m = "Presentation" -> "PRESENTATIONS"]

\* set(material_map.values())
DisplayNames == {material_map[m] : m \in DOMAIN material_map}

\* Sum of f over the finite set S.
RECURSIVE SumOver(_, _)
SumOver(f, S) ==
    IF S = {} THEN 0
    ELSE LET x == CHOOSE y \in S : TRUE IN f[x] + SumOver(f, S \ {x})

\* cm_3q, cm_4q, cm_jan, cm_feb of one material: the number of rows of corp of
\* that material in the period, "// 3" on the two trailing windows.
MaterialCount(corp, today, m, p) ==
    PeriodFigure(Len(OfMaterial(PeriodRows(corp, today, p), m)), p)

\* The display columns of marketing_data: each starts at [0, 0, 0, 0] and
\* receives the counts of the materials mapped to it.
MarketingColumns(corp, today) ==
    [disp \in DisplayNames |->
        [p \in Periods |->
            LET ms == {m \in DOMAIN material_map : material_map[m] = disp}
            IN  SumOver([m \in ms |-> MaterialCount(corp, today, m, p)], ms)]]

\* marketing_data of the Corporate Marketing rows corp: the display columns
\* and TOTAL, the sum of the display columns for each period.
marketing_data(corp, today) ==
    LET cols == MarketingColumns(corp, today) IN
    [columns |-> cols,
     TOTAL   |-> [p \in Periods |->
                    SumOver([disp \in DisplayNames |-> cols[disp][p]],
                            DisplayNames)]]

\* The ids of the rows of df_3q, df_4q, df_jan and df_feb, in order.
WindowIds(df, today) ==
    [p \in Periods |->
        LET rows == PeriodRows(df, today, p) IN
        [i \in 1..Len(rows) |-> rows[i].submission_id]]

\* What the dashboard shows for table df (dates converted) at instant today.
DashboardScreen(df, today) ==
    [page             |-> "Dashboard",
     today            |-> today,
     total            |-> Len(df),
     windows          |-> WindowIds(df, today),
     avg_time         |-> MeanReviewTime(df),
     compliance       |-> ComplianceRate(df),
     compliance_delta |-> ComplianceDelta(df, PeriodRows(df, today, "4Q")),
     marketing        |-> marketing_data(FromSource(df, "Corporate Marketing"),
                                         today),
     third_party      |-> Volume(FromSource(df, "Third Party"), today),
     trend            |-> Volume(df, today),
     review           |-> ReviewMetrics(df, today)]

\* df = st.session_state.data; df['submission_date'] = pd.to_datetime(...):
\* df is the session's table itself, so the conversion is written to the store.
DashboardData(df) == ToDatetimeColumn(df)

\* One run of the script on the Dashboard page.
Dashboard ==
    /\ data' = DashboardData(data)
    /\ screen' = DashboardScreen(ToDatetimeColumn(data), now)
    /\ UNCHANGED <<current_id, now, issued>>

-----------------------------------------------------------------------------
(* Specification of a session: intake and dashboard views *)

Next == Submit \/ Dashboard \/ Tick

Spec == Init /\ [][Next]_vars

-----------------------------------------------------------------------------
(* Review queue: assigning a reviewer *)

\* The rows of df whose id is id.
RowsWithId(df, id) == {i \in 1..Len(df) : df[i].submission_id = id}

\* Variant: an unknown id is accepted silently.
assign_reviewer_silent(df, id, reviewer) ==
    [result |-> "ok",
     data   |-> [i \in 1..Len(df) |->
                    IF df[i].submission_id = id
                    THEN [df[i] EXCEPT !.assigned_to = Some(reviewer),
                                       !.status = "In Review"]
                    ELSE df[i]]]

\* assign_reviewer(id, reviewer): NotFoundError when no row has the id,
\* otherwise assigned_to := reviewer and status := In Review on the row of
\* that id.
assign_reviewer(df, id, reviewer) ==
    IF RowsWithId(df, id) = {}
    THEN [result |-> "NotFoundError", data |-> df]
    ELSE [result |-> "ok",
          data   |-> [i \in 1..Len(df) |->
                         IF df[i].submission_id = id
                         THEN [df[i] EXCEPT !.assigned_to = Some(reviewer),
                                            !.status = "In Review"]
                         ELSE df[i]]]

\* The ids a user of the queue may name: every id a session can hold, and one
\* beyond them.
AssignIds == {FormatId(n) : n \in 1..(NumGenerated + MaxSubmits + 1)}

\* One run of the script on the Review Queue page, assigning reviewer to id.
AssignWith(id, reviewer) ==
    LET r == assign_reviewer(data, id, reviewer) IN
    /\ data' = r.data
    /\ screen' = [page |-> "Review Queue", id |-> id, reviewer |-> reviewer,
                  result |-> r.result]
    /\ UNCHANGED <<current_id, now, issued>>

Assign == \E id \in AssignIds, reviewer \in Reviewers : AssignWith(id, reviewer)

(* Specification of the review queue: records come in and are assigned *)

\* Draws of the queue: a record waiting for a reviewer, or one already
\* approved under a reviewer.
QueueDraws ==
    {c \in LifecycleDraws :
        (c.status = "Pending" /\ c.s2 = "Pending")
        \/ (c.status = "Approved" /\ c.s2 = "Approved")}

InitQueue ==
    /\ now \in {t \in SessionClock : \A u \in SessionClock : t <= u}
    /\ \E d \in [1..NumGenerated -> QueueDraws] :
          data = generate_sample_data(NumGenerated, now, d)
    /\ current_id = InitialCurrentId(data)
    /\ screen = NoScreen
    /\ issued = <<>>

\* The form submitted while the queue is worked.
QueueForm ==
    CHOOSE f \in SubmitForms :
        Len(ValidationErrors(f)) = 0 /\ f.title = "Q1 Brochure"

QueueIntake == SubmitWith(QueueForm)

NextQueue == QueueIntake \/ Assign

SpecQueue == InitQueue /\ [][NextQueue]_vars

-----------------------------------------------------------------------------
(* The dashboard computation over an arbitrary table *)

\* Draws that vary what the metrics read: the period the date falls in, the
\* outcome of the review, and whether a review time was recorded.
MetricDraws ==
    {[offset |-> o, material_type |-> "Video", source |-> "Third Party",
      status |-> q.status, page_count |-> q.page_count, s2 |-> "Approved",
      reviewer |-> "Amanda H.", review_delta |-> None,
      compliance_score |-> q.compliance_score, flags |-> q.flags,
      review_time_hours |-> h] :
        o \in {0, 20, 100},
        q \in {[status |-> "Approved", page_count |-> 10,
                compliance_score |-> 85, flags |-> 1],
               [status |-> "Rejected", page_count |-> 7,
                compliance_score |-> 60, flags |-> 3]},
        h \in {None, Some(20)}}

\* The rows a store can hold at position i: generated ones and submitted ones.
MetricRows(i, t) ==
    {GenRow(i, t, c) : c \in MetricDraws}
    \cup {new_submission(FormatId(i), f, t) :
            f \in {g \in SubmitForms : Len(ValidationErrors(g)) = 0 /\ g.page_count = 1}}

RECURSIVE Tables(_, _)
\* Every table of n rows.
Tables(n, t) ==
    IF n = 0 THEN {<<>>}
    ELSE {Append(df, r) : df \in Tables(n - 1, t), r \in MetricRows(n, t)}

-----------------------------------------------------------------------------
(* The volume tables of the dashboard over an arbitrary table *)

\* Rows of a table handed to the volume computation.
MaxVolumeRows == 3

\* Draws that vary what the volume tables read: the source, the material type
\* (with a page count of its own) and the trailing window the date falls in.
VolumeDraws ==
    {[offset |-> o, material_type |-> m.material_type, source |-> src,
      status |-> "Approved", page_count |-> m.page_count, s2 |-> "Approved",
      reviewer |-> "Amanda H.", review_delta |-> None,
      compliance_score |-> 85, flags |-> 1, review_time_hours |-> Some(20)] :
        o \in {0, 100},
        src \in {"Corporate Marketing", "Third Party"},
        m \in {[material_type |-> "Blog Post", page_count |-> 10],
               [material_type |-> "PR Article", page_count |-> 4],
               [material_type |-> "Video", page_count |-> 7]}}

RECURSIVE VolumeTables(_, _)
\* Every generated table of n rows.
VolumeTables(n, t) ==
    IF n = 0 THEN {<<>>}
    ELSE {Append(df, GenRow(n, t, c)) :
            df \in VolumeTables(n - 1, t), c \in VolumeDraws}

InitVolume ==
    /\ now \in {t \in SessionClock : t % 2 = 1}
    /\ data \in UNION {VolumeTables(n, now) : n \in 0..MaxVolumeRows}
    /\ current_id = Len(data) + 1
    /\ screen = NoScreen
    /\ issued = <<>>

NextVolume == Dashboard

SpecVolume == InitVolume /\ [][NextVolume]_vars

InitMetrics ==
    /\ now \in SessionClock
    /\ data \in UNION {Tables(n, now) : n \in 0..MaxRows}
    /\ current_id = Len(data) + 1
    /\ screen = NoScreen
    /\ issued = <<>>

NextMetrics == Dashboard \/ Tick

SpecMetrics == InitMetrics /\ [][NextMetrics]_vars

-----------------------------------------------------------------------------
(* The dashboard on a freshly generated table, on days of two years *)

\* 10 March of the leap year 2024 and of 2025, at midnight and later that day.
CalendarClock ==
    {2 * (JanFirst(y) + (IF IsLeap(y) THEN 69 ELSE 68)) + h :
        y \in {2024, 2025}, h \in 0..1}

\* Draws that vary the date only: the days around the ends of January and
\* February and around the ends of the two trailing windows.
CalendarDraws ==
    {[offset |-> o, material_type |-> "Blog Post", source |-> "Third Party",
      status |-> "Approved", page_count |-> 10, s2 |-> "Approved",
      reviewer |-> "Amanda H.", review_delta |-> None,
      compliance_score |-> 85, flags |-> 1, review_time_hours |-> Some(20)] :
        o \in {0, 9, 10, 11, 38, 39, 68, 69, 70, 89, 90, 91, 119, 120}}

InitCalendar ==
    /\ now \in CalendarClock
    /\ \E d \in [1..NumGenerated -> CalendarDraws] :
          data = generate_sample_data(NumGenerated, now, d)
    /\ current_id = InitialCurrentId(data)
    /\ screen = NoScreen
    /\ issued = <<>>

NextCalendar == Dashboard

SpecCalendar == InitCalendar /\ [][NextCalendar]_vars

-----------------------------------------------------------------------------
(* Properties of intake, checked under Spec *)

\* The form has a title and an uploaded file.
ValidForm(f) == f.title # "" /\ ~IsNone(f.uploaded_file)

\* The ids of the rows of df.
IdsOf(df) == {df[i].submission_id : i \in 1..Len(df)}

\* The greatest sequence number among the ids of df, compared as numbers.
MaxSeqNum(df) ==
    CHOOSE m \in {SeqOf(id) : id \in IdsOf(df)} :
        \A id \in IdsOf(df) : SeqOf(id) <= m

\* The last run was a successful submit.
SubmitSucceeded == screen.page = "Submit Request" /\ ~IsNone(screen.success)

\* C1: every record whose status is Pending has assigned_to absent.
C1_PendingIsUnassigned ==
    \A i \in 1..Len(data) :
        data[i].status = "Pending" => IsNone(data[i].assigned_to)

\* C2: a submit of a valid form lengthens the store by exactly one and returns
\* an id no record had before; hence all ids in the store are pairwise distinct.
C2_SubmitAddsOneFreshId ==
    /\ [](\A i, j \in 1..Len(data) :
             data[i].submission_id = data[j].submission_id => i = j)
    /\ [][\A f \in SubmitForms :
            (ValidForm(f) /\ SubmitWith(f)) =>
                /\ Len(data') = Len(data) + 1
                /\ ~IsNone(screen'.success)
                /\ Val(screen'.success) \notin IdsOf(data)
                /\ data'[Len(data')].submission_id = Val(screen'.success)]_vars

\* Two submits have succeeded, the last run being the second of them.
C2_Witness ==
    /\ SubmitSucceeded
    /\ Len(issued) = 2
    /\ Len(data) = NumGenerated + 2
    /\ issued[2] = Val(screen.success)

\* C3: a submit with an empty title, or without an uploaded file, fails with a
\* validation error and leaves the store and current_id unchanged.
C3_RejectedSubmitChangesNothing ==
    [][\A f \in SubmitForms :
         (~ValidForm(f) /\ SubmitWith(f)) =>
             /\ Len(screen'.errors) > 0
             /\ IsNone(screen'.success)
             /\ data' = data
             /\ current_id' = current_id]_vars

\* A submit without a file was rejected after an earlier one had succeeded.
C3_Witness ==
    /\ screen.page = "Submit Request"
    /\ screen.form.title # ""
    /\ IsNone(screen.form.uploaded_file)
    /\ screen.errors = <<FileError>>
    /\ Len(issued) > 0

\* C4: the sequence numbers of the ids returned by successive successful
\* submits are strictly increasing.
C4_IssuedStrictlyIncreasing ==
    \A i, j \in 1..Len(issued) :
        i < j => SeqOf(issued[i]) < SeqOf(issued[j])

\* Two submits succeeded with a dashboard view between them: the first
\* submitted record has its date converted, the second has not.
C4_Witness ==
    /\ Len(issued) = 2
    /\ Len(data) = NumGenerated + 2
    /\ data[NumGenerated + 1].submission_date.repr = "datetime"
    /\ data[NumGenerated + 2].submission_date.repr = "str"

\* C5: current_id is the greatest sequence number in the store plus one, and
\* the id a successful submit assigns carries the greatest sequence number
\* the store held before it, plus one.
C5_NextIsMaxPlusOne ==
    /\ current_id = MaxSeqNum(data) + 1
    /\ SubmitSucceeded =>
          /\ data[Len(data)].submission_id = Val(screen.success)
          /\ SeqOf(Val(screen.success))
                = MaxSeqNum(SubSeq(data, 1, Len(data) - 1)) + 1

\* A second submit has just succeeded on the generated table 0001..000N.
C5_Witness ==
    /\ SubmitSucceeded
    /\ Len(issued) = 2
    /\ IdsOf(SubSeq(data, 1, NumGenerated)) = {FormatId(n) : n \in 1..NumGenerated}
    /\ current_id = NumGenerated + 3

\* The record a successful submit created, but for its flags.
C6_CreatedRecordOtherwise(r) ==
    /\ r.status = "Pending"
    /\ IsNone(r.assigned_to)
    /\ IsNone(r.review_date)
    /\ IsNone(r.compliance_score)
    /\ IsNone(r.review_time_hours)
    /\ r.title = screen.form.title
    /\ r.material_type = screen.form.material_type
    /\ r.source = screen.form.source
    /\ r.page_count = screen.form.page_count

\* C6 as stated: the record created by a successful submit is Pending,
\* unassigned, has every review field absent, flags included, and carries the
\* form's title, material_type, source and page_count.
C6_Original ==
    SubmitSucceeded =>
        /\ C6_CreatedRecordOtherwise(data[Len(data)])
        /\ IsNone(data[Len(data)].flags)

\* C6 amended: as stated, except that flags is present and is 0.
C6_CreatedRecord ==
    SubmitSucceeded =>
        /\ C6_CreatedRecordOtherwise(data[Len(data)])
        /\ data[Len(data)].flags = Some(0)

\* The hundred-page PR article has just been submitted.
C6_Witness ==
    /\ SubmitSucceeded
    /\ screen.form.page_count = 100
    /\ data[Len(data)].submission_id = Val(screen.success)
    /\ data[Len(data)].material_type = "PR Article"

-----------------------------------------------------------------------------
(* Properties of the review queue, checked under SpecQueue *)

C8_AssignUnknownId ==
    [][\A id \in AssignIds, reviewer \in Reviewers :
         (id \notin IdsOf(data) /\ AssignWith(id, reviewer)) =>
             /\ screen'.result = "NotFoundError"
             /\ data' = data]_vars

\* An assignment to an id beyond every id of the store has just failed.
C8_Witness ==
    /\ screen.page = "Review Queue"
    /\ screen.result = "NotFoundError"
    /\ screen.id \notin IdsOf(data)
    /\ Len(data) > NumGenerated

-----------------------------------------------------------------------------
(* Properties of the dashboard *)

\* C9: a dashboard view leaves every field of every record, the length and
\* the order of the store as they were.
C9_DashboardLeavesStore == [][Dashboard => data' = data]_vars

\* The value is the number zero.
IsZero(v) == v.kind = "num" /\ v.num = 0

\* The rates and differences of rates the dashboard screen sc shows.
RatesShown(sc) ==
    {sc.compliance, sc.compliance_delta}
    \cup UNION {{sc.review[p].pages_per_hour, sc.review[p].first_pass,
                 sc.review[p].multi_round} : p \in Periods}

\* C10: over an empty store, and over any period that holds no rows, the
\* compliance rate, the first-pass approval rate, the multi-round rate and
\* pages-per-hour are 0, and no division by zero occurs.
C10_EmptyRatesAreZero ==
    [][Dashboard =>
         /\ \A v \in RatesShown(screen') : v.kind # "ZeroDivisionError"
         /\ Len(data) = 0 => IsZero(screen'.compliance)
         /\ \A p \in Periods :
               PeriodRows(ToDatetimeColumn(data), now, p) = <<>> =>
                  /\ IsZero(screen'.review[p].pages_per_hour)
                  /\ IsZero(screen'.review[p].first_pass)
                  /\ IsZero(screen'.review[p].multi_round)
         /\ PeriodRows(ToDatetimeColumn(data), now, "4Q") = <<>> =>
               IsZero(screen'.compliance_delta)]_vars

\* The dashboard has been computed over the empty store: every period is
\* empty as well.
C10_Witness ==
    /\ screen.page = "Dashboard"
    /\ Len(data) = 0
    /\ screen.total = 0
    /\ IsZero(screen.compliance)
    /\ \A p \in Periods : IsZero(screen.review[p].first_pass)

-----------------------------------------------------------------------------
(* Properties of the metrics, checked under SpecMetrics *)

RECURSIVE SumFn(_, _)
\* The sum of f[x] over the x in S.
SumFn(f, S) ==
    IF S = {} THEN 0
    ELSE LET x == CHOOSE y \in S : TRUE IN f[x] + SumFn(f, S \ {x})

\* The indices of the rows that have a review time.
TimedRows(rows) == {i \in 1..Len(rows) : ~IsNone(rows[i].review_time_hours)}

\* The value v is the fraction a / b (b > 0).
IsFraction(v, a, b) == v.kind = "num" /\ v.den # 0 /\ v.num * b = a * v.den

\* C11: for every period, pages-per-hour is the sum of page_count over the
\* period's rows that have review_time_hours, divided by the sum of
\* review_time_hours over those rows (rows without it count in neither sum),
\* and 0 when that denominator is 0.
C11_PagesPerHour ==
    [][Dashboard =>
         \A p \in Periods :
            LET rows   == PeriodRows(ToDatetimeColumn(data), now, p)
                T      == TimedRows(rows)
                pages  == SumFn([i \in T |-> rows[i].page_count], T)
                tenths == SumFn([i \in T |-> Val(rows[i].review_time_hours)], T)
                v      == screen'.review[p].pages_per_hour
            IN  IF tenths = 0 THEN IsZero(v)
                ELSE IsFraction(v, 10 * pages, tenths)]_vars

\* A period holds a ten-page row reviewed in 2.0 hours and a row with no review
\* time, and shows 5.0 pages per hour.
C11_Witness ==
    /\ screen.page = "Dashboard"
    /\ \E p \in Periods :
          LET rows == PeriodRows(ToDatetimeColumn(data), screen.today, p) IN
          /\ Len(rows) = 2
          /\ rows[1].page_count = 10
          /\ rows[1].review_time_hours = Some(20)
          /\ IsNone(rows[2].review_time_hours)
          /\ IsFraction(screen.review[p].pages_per_hour, 5, 1)

\* The number of rows whose compliance score is present and at least 80.
NumCompliant(rows) ==
    Cardinality({i \in 1..Len(rows) :
                    /\ rows[i].compliance_score # None
                    /\ Val(rows[i].compliance_score) >= 80})

\* C12 as stated: for each period, the compliance rate shown is
\* 100 * (rows of the period with score >= 80) / (rows of the period), and 0
\* when the period has no rows.
C12_Original ==
    [][Dashboard =>
         \A p \in Periods :
            LET rows == PeriodRows(ToDatetimeColumn(data), now, p) IN
            IF Len(rows) = 0 THEN IsZero(screen'.compliance)
            ELSE IsFraction(screen'.compliance,
                            100 * NumCompliant(rows), Len(rows))]_vars

\* C12 amended: the compliance rate shown is computed over all rows of the
\* store, 100 * (rows with score >= 80) / (rows), and 0 on an empty store;
\* the one rate taken over a period, that of the 90-120 days window, is
\* 100 * (its rows with score >= 80) / (its rows) and enters the delta shown
\* beside it, which is 0 when that window has no rows.
C12_ComplianceOverStore ==
    [][Dashboard =>
         LET n  == Len(data)
             k  == NumCompliant(data)
             w  == PeriodRows(ToDatetimeColumn(data), now, "4Q")
             n4 == Len(w)
             k4 == NumCompliant(w)
         IN  /\ IF n = 0 THEN IsZero(screen'.compliance)
                ELSE IsFraction(screen'.compliance, 100 * k, n)
             /\ IF n4 = 0 THEN IsZero(screen'.compliance_delta)
                ELSE IsFraction(screen'.compliance_delta,
                                100 * k * n4 - 100 * k4 * n, n * n4)]_vars

\* The store holds a compliant row of the last 90 days and a non-compliant
\* row of the 90-120 days window: the rate shown is 50, the delta 50.
C12_Witness ==
    /\ screen.page = "Dashboard"
    /\ Len(data) = 2
    /\ Len(PeriodRows(ToDatetimeColumn(data), screen.today, "3Q")) = 1
    /\ Len(PeriodRows(ToDatetimeColumn(data), screen.today, "4Q")) = 1
    /\ NumCompliant(PeriodRows(ToDatetimeColumn(data), screen.today, "4Q")) = 0
    /\ IsFraction(screen.compliance, 50, 1)
    /\ IsFraction(screen.compliance_delta, 50, 1)

-----------------------------------------------------------------------------
(* Properties of the volume tables, checked under SpecVolume *)

\* The indices of the rows of df dated in period p.
InPeriod(df, today, p) ==
    {i \in 1..Len(df) :
        Len(PeriodRows(ToDatetimeColumn(<<df[i]>>), today, p)) = 1}

\* Count or sum x as the claim has it reported for period p.
C13_Reported(x, p) == IF p \in {"3Q", "4Q"} THEN x \div 3 ELSE x

\* The volume series vol are those of the rows S of data in each period.
C13_VolumeOf(vol, S) ==
    \A p \in Periods :
        LET W == InPeriod(data, now, p) \cap S
            V == {i \in W : data[i].material_type = "Video"}
        IN  /\ vol.pieces[p] = C13_Reported(Cardinality(W), p)
            /\ vol.pages[p]
                  = C13_Reported(SumFn([i \in W |-> data[i].page_count], W), p)
            /\ vol.videos[p] = C13_Reported(Cardinality(V), p)

\* C13: pieces, pages and videos are reported, for each of the two trailing
\* windows, as the window's count or sum integer-divided by 3, and for each of
\* the two months as the count or sum itself.
C13_VolumeFigures ==
    [][Dashboard =>
         /\ C13_VolumeOf(screen'.trend, 1..Len(data))
         /\ C13_VolumeOf(screen'.third_party,
                         {i \in 1..Len(data) : data[i].source = "Third Party"})]_vars

\* Three rows of the last 90 days, dated this February, two of them videos:
\* the trailing figures are 1 piece and 0 videos, February's are 3 and 2.
C13_Witness ==
    /\ screen.page = "Dashboard"
    /\ Len(data) = 3
    /\ screen.trend.pieces["3Q"] = 1
    /\ screen.trend.pieces["FEB"] = 3
    /\ screen.trend.videos["3Q"] = 0
    /\ screen.trend.videos["FEB"] = 2
    /\ screen.trend.pages["FEB"] > screen.trend.pages["3Q"]
    /\ screen.trend.pages["3Q"] > 0

-----------------------------------------------------------------------------
(* Properties of the Submit Request page *)

\* The messages reported by the screen.
Reported == {screen.errors[i] : i \in 1..Len(screen.errors)}

\* C14: a submit with the title empty and the uploaded file absent reports
\* both failures, as two distinct messages.
C14_BothFailuresReported ==
    (/\ screen.page = "Submit Request"
     /\ screen.form.title = ""
     /\ IsNone(screen.form.uploaded_file)) =>
        /\ TitleError \in Reported
        /\ FileError \in Reported
        /\ TitleError # FileError

\* C15: for every source, the requirement list shown at intake is the
\* catalog's General list followed by the list the catalog stores under that
\* source's name.
C15_RequirementsOfSource ==
    screen.page = "Submit Request" =>
        screen.requirements
            = generate_requirements["General"]
              \o generate_requirements[screen.form.source]

\* C16: a successful submit places the new record after all existing ones and
\* leaves every earlier record in place, in order, every field unchanged; no
\* operation removes a record.
C16_AppendOnly ==
    /\ [][\A f \in SubmitForms :
            (ValidForm(f) /\ SubmitWith(f)) =>
                /\ Len(data') = Len(data) + 1
                /\ SubSeq(data', 1, Len(data)) = data
                /\ data'[Len(data) + 1].submission_id \notin IdsOf(data)
                /\ data'[Len(data) + 1].title = f.title]_vars
    /\ [][/\ Len(data') >= Len(data)
          /\ \A i \in 1..Len(data) :
                data'[i].submission_id = data[i].submission_id]_vars

\* A submit has just succeeded on a store whose earlier records had their
\* dates converted by a dashboard view: they are kept as they were.
C16_Witness ==
    /\ SubmitSucceeded
    /\ Len(data) = NumGenerated + 1
    /\ \A i \in 1..NumGenerated : data[i].submission_date.repr = "datetime"
    /\ data[Len(data)].submission_date.repr = "str"
    /\ data[Len(data)].submission_id = Val(screen.success)

-----------------------------------------------------------------------------
(* Properties of the period windows, checked under SpecCalendar *)

\* The calendar day of a submission_date cell.
DayOf(c) == IF c.repr = "str" THEN c.val ELSE c.val \div 2

\* The ids a sequence of ids holds.
IdSet(ids) == {ids[i] : i \in 1..Len(ids)}

\* Day d lies in January of year y.
InJanuary(d, y) == JanFirst(y) <= d /\ d < JanFirst(y) + 31

\* Day d lies in February of year y: from 1 February to the day before
\* 1 March.
InFebruary(d, y) ==
    /\ JanFirst(y) + 31 <= d
    /\ d < JanFirst(y) + 31 + (IF IsLeap(y) THEN 29 ELSE 28)

\* C17: the February window holds exactly the submissions dated in February
\* of the current year, the January window exactly those dated in January,
\* in every year, leap years included.
C17_MonthWindows ==
    [][Dashboard =>
         \A i \in 1..Len(data) :
            LET d == DayOf(data[i].submission_date)
                y == YearOf(now \div 2)
            IN  /\ data[i].submission_id \in IdSet(screen'.windows["FEB"])
                      <=> InFebruary(d, y)
                /\ data[i].submission_id \in IdSet(screen'.windows["JAN"])
                      <=> InJanuary(d, y)]_vars

\* C18: every submission dated today minus 0..120 days is in exactly one of
\* the last-90-days window and the 90-120-days window, at any time of day.
C18_TrailingWindowsPartition ==
    [][Dashboard =>
         \A i \in 1..Len(data) :
            LET d == DayOf(data[i].submission_date)
                t == now \div 2
            IN  (t - 120 <= d /\ d <= t) =>
                   (data[i].submission_id \in IdSet(screen'.windows["3Q"]))
                     # (data[i].submission_id \in IdSet(screen'.windows["4Q"]))]_vars

-----------------------------------------------------------------------------
(* Properties of the Corporate Marketing table, checked under SpecVolume *)

\* The indices of the Corporate Marketing rows of data dated in period p.
C19_Window(p) ==
    {i \in InPeriod(data, now, p) : data[i].source = "Corporate Marketing"}

\* C19, as first stated: TOTAL is the pieces figure of the Corporate
\* Marketing rows of the period, the number of rows for the two months and
\* that number integer-divided by 3 for the two trailing windows.
C19_Original ==
    [][Dashboard =>
         \A p \in Periods :
            screen'.marketing.TOTAL[p]
               = (IF p \in {"3Q", "4Q"} THEN Cardinality(C19_Window(p)) \div 3
                  ELSE Cardinality(C19_Window(p)))]_vars

\* C19: TOTAL is, for each period, the sum over the material types of that
\* type's figure: the number of Corporate Marketing rows of the type in the
\* window, integer-divided by 3 on the two trailing windows and undivided on
\* the two months. Every material type, PR Article included, is counted once.
C19_TotalIsSumOfColumns ==
    [][Dashboard =>
         \A p \in Periods :
            LET n == [m \in MaterialTypes |->
                        Cardinality({i \in C19_Window(p) :
                                        data[i].material_type = m})]
                fig == [m \in MaterialTypes |->
                          IF p \in {"3Q", "4Q"} THEN n[m] \div 3 ELSE n[m]]
            IN  screen'.marketing.TOTAL[p] = SumFn(fig, MaterialTypes)]_vars

\* Three Corporate Marketing rows dated this February, a blog post, a press
\* article and a video: February's TOTAL is 3, the trailing window's is 0
\* although 3 rows integer-divided by 3 is 1.
C19_Witness ==
    /\ screen.page = "Dashboard"
    /\ Len(data) = 3
    /\ \A i \in 1..3 : data[i].source = "Corporate Marketing"
    /\ {data[i].material_type : i \in 1..3} = {"Blog Post", "PR Article", "Video"}
    /\ screen.marketing.TOTAL["FEB"] = 3
    /\ screen.marketing.TOTAL["3Q"] = 0
    /\ screen.marketing.columns["BLOGS & PR ARTICLES"]["FEB"] = 2

====
